---- MODULE Spec2Model ----
(***************************************************************************)
(* Model of src/app.py: the Streamlit call-analysis dashboard.             *)
(*                                                                         *)
(* State: st.session_state (transcript, running, results), the worker      *)
(* threads launched by the Start button (each at a line of                 *)
(* transcribe_real_time, with its locals), and the message shown by the    *)
(* "Log to HubSpot" handler.                                               *)
(*                                                                         *)
(* Strings are sequences of tokens: a canned line is one token, "\n" is    *)
(* the token NL.  Python dicts are records [type, items] whose items are   *)
(* <<key, value>> pairs.                                                   *)
(*                                                                         *)
(* External calls (crew.kickoff, eval of model text, requests.post,        *)
(* transcriber.connect / stream_file) have no code in the repository: each *)
(* is a nondeterministic choice over its outcomes.  st.error, st.warning,  *)
(* st.success, st.rerun, time.sleep and transcriber.close change no        *)
(* modelled state.  The repository holds no sample_call.wav, so            *)
(* stream_file (app.py:100) raises: FileNotFoundError or another           *)
(* exception.  The live path (on_data, app.py:90-94) is not modelled.      *)
(*                                                                         *)
(* A worker step is one access to st.session_state together with the       *)
(* thread-local statements that precede it; the += of line 113 is a load   *)
(* and a store, between which other threads run.  A local variable is      *)
(* cleared once the thread cannot read it again.                           *)
(***************************************************************************)
EXTENDS Integers, Sequences, FiniteSets, TLC

\* Bound: the number of Start presses that launch a worker.
MaxStarts == 2

\* Bound: how many of the canned lines the for loop of app.py:103 iterates over
\* in Spec, where workers of several sessions interleave.  SpecNoStop iterates
\* over all of them.
MaxLines == 2

Workers == 1..MaxStarts

\* app.py:103-110, the canned lines (one token per line of text).
Chunks == <<"Agent1", "Prospect1", "Agent2", "Prospect2", "Agent3", "Prospect3">>

\* The "\n" of app.py:113.
NL == "\n"

VARIABLES
    running,      \* st.session_state.running
    transcript,   \* st.session_state.transcript
    results,      \* st.session_state.results
    nworkers,     \* threads started so far (app.py:131)
    pc,           \* per worker: the line of transcribe_real_time it is at
    idx,          \* per worker: position of the for loop in Chunks
    tmp,          \* per worker: the transcript value loaded by += (app.py:113)
    feedback,     \* per worker: local `feedback` (app.py:114)
    source,       \* the lines the for loop iterates over (app.py:103-110)
    call,         \* arguments of the last direct call of a function
    ret           \* what that call returned

vars == <<running, transcript, results, nworkers, pc, idx, tmp, feedback,
          source, call, ret>>

session == <<running, transcript, results, nworkers, pc, idx, tmp, feedback, source>>

----------------------------------------------------------------------------
\* Python values

PyDict(items) == [type |-> "dict", items |-> items]

\* A value that is no dict (a list, a number): it has no .get
PyList == [type |-> "list", items |-> {}]

None == [type |-> "None", items |-> {}]

HasKey(d, k) == \E p \in d.items : p[1] = k

\* dict.get(k, default)
Get(d, k, default) == IF HasKey(d, k) THEN (CHOOSE p \in d.items : p[1] = k)[2] ELSE default

\* app.py:28 and app.py:130
EmptyResults == [sentiment |-> PyDict({}), key_phrases |-> <<>>, feedback |-> <<>>]

\* app.py:64
DefaultSentiment == PyDict({<<"positive", 0>>, <<"negative", 0>>, <<"neutral", 0>>})

DefaultFeedback == PyDict({<<"key_phrases", <<>>>>, <<"feedback", <<>>>>})

----------------------------------------------------------------------------
\* analyze_chunk (app.py:47-64)

\* What the two model roles can write for chunk number n.  "literal" is a
\* Python literal, "expr" an expression that is no literal but evaluates
\* (dict(positive=1, ...)), "text" prose that eval rejects with SyntaxError or
\* NameError, "exit" text such as exit() whose evaluation raises SystemExit.
SentimentOf(n) == PyDict({<<"positive", n>>, <<"negative", 0>>, <<"neutral", 1>>})

FeedbackOf(n) == PyDict({<<"key_phrases", <<Chunks[n]>>>>, <<"feedback", <<Chunks[n]>>>>})

RawSentiment(n) ==
    { [kind |-> "literal", val |-> SentimentOf(n)],
      [kind |-> "expr", val |-> SentimentOf(n)],
      [kind |-> "text", val |-> None],
      [kind |-> "exit", val |-> None] }

RawFeedback(n) ==
    { [kind |-> "literal", val |-> FeedbackOf(n)],
      [kind |-> "literal", val |-> PyDict({})],
      [kind |-> "literal", val |-> PyList],
      [kind |-> "text", val |-> None] }

\* crew.kickoff() (app.py:60) returns the task outputs or raises.
KickoffOutcomes == {"ok", "raise"}

\* Python's eval: the value of any expression, literal or not; otherwise the
\* exception the text raises.
eval(raw) ==
    CASE raw.kind \in {"literal", "expr"} -> [exc |-> "none", val |-> raw.val]
      [] raw.kind = "text" -> [exc |-> "Exception", val |-> None]
      [] raw.kind = "exit" -> [exc |-> "BaseException", val |-> None]

DefaultPair == [exc |-> "none", sentiment |-> DefaultSentiment, feedback |-> DefaultFeedback]

\* The result of analyze_chunk: the returned pair, or the exception that
\* leaves the function (exc # "none").  The tuple of line 61 is evaluated left
\* to right; `except Exception` catches Exception and its subclasses only.
analyze_chunk(kick, raw0, raw1) ==
    IF kick = "raise" THEN DefaultPair
    ELSE LET e0 == eval(raw0)
             e1 == eval(raw1)
         IN  CASE e0.exc = "Exception" -> DefaultPair
               [] e0.exc = "BaseException" ->
                      [exc |-> "BaseException", sentiment |-> None, feedback |-> None]
               [] e1.exc = "Exception" -> DefaultPair
               [] e1.exc = "BaseException" ->
                      [exc |-> "BaseException", sentiment |-> None, feedback |-> None]
               [] OTHER -> [exc |-> "none", sentiment |-> e0.val, feedback |-> e1.val]

\* Everything a call of analyze_chunk on line n can do, over what kickoff and
\* the two roles can do.
AnalyzeResults(n) ==
    { analyze_chunk(c[1], c[2], c[3]) :
        c \in KickoffOutcomes \X RawSentiment(n) \X RawFeedback(n) }

----------------------------------------------------------------------------
\* log_to_hubspot (app.py:67-85)

\* requests.post returns a response with a status code, or raises.
StatusCodes == {200, 201, 204, 400, 500}

PostOutcomes == [exc : {"none"}, status : StatusCodes]
                    \cup [exc : {"ConnectionError", "Timeout"}, status : {0}]

\* The body of line 74 reads results['sentiment'], ['key_phrases'] and
\* ['feedback'] inside the try: a missing key is a KeyError raised there.
BodyRaises(res) == ~({"sentiment", "key_phrases", "feedback"} \subseteq DOMAIN res)

\* log_to_hubspot with `response.ok` in place of the comparison with 201.
log_to_hubspot_ok(tr, res, post) ==
    IF BodyRaises(res) THEN [exc |-> "none", value |-> FALSE]
    ELSE IF post.exc # "none" THEN [exc |-> "none", value |-> FALSE]
    ELSE [exc |-> "none", value |-> (post.status \in 200..299)]

\* The value returned, or the exception that leaves the function.  Both the
\* building of the body and the POST are inside the try of line 68.
log_to_hubspot(tr, res, post) ==
    IF BodyRaises(res) THEN [exc |-> "none", value |-> FALSE]
    ELSE IF post.exc # "none" THEN [exc |-> "none", value |-> FALSE]
    ELSE [exc |-> "none", value |-> (post.status = 201)]

----------------------------------------------------------------------------
\* The session: buttons (app.py:124-140) and worker threads (app.py:88-121)

NoCall == [fn |-> "none"]

InitWith(lines) ==
    /\ source = lines
    /\ running = FALSE
    /\ transcript = <<>>
    /\ results = EmptyResults
    /\ nworkers = 0
    /\ pc = [w \in Workers |-> "unborn"]
    /\ idx = [w \in Workers |-> 0]
    /\ tmp = [w \in Workers |-> <<>>]
    /\ feedback = [w \in Workers |-> None]
    /\ call = NoCall
    /\ ret = NoCall

Init == InitWith(SubSeq(Chunks, 1, MaxLines))

\* AppendChunk with the newline as a separator, not a terminator.
AppendChunkSeparated(t, chunk) == IF t = <<>> THEN <<chunk>> ELSE t \o <<NL, chunk>>

\* app.py:113, the right-hand side of +=
AppendChunk(t, chunk) == t \o <<chunk, NL>>

\* SetSentiment adding the new scores to the stored ones.
AddSentiment(res, s) ==
    [res EXCEPT !.sentiment =
        PyDict({ <<k, Get(@, k, 0) + Get(s, k, 0)>> : k \in {p[1] : p \in s.items} })]

\* app.py:115
SetSentiment(res, s) == [res EXCEPT !.sentiment = s]

\* Extend as an assignment of the new items.
Replace(list, items) == items

\* app.py:116-117, list.extend
Extend(list, items) == list \o items

\* ShouldBreak with the test inverted.
ShouldBreakInverted(run) == run

\* app.py:111, the condition of the break
ShouldBreak(run) == ~run

\* app.py:127, the condition under which a press starts a session
MayStart(run) == ~run

\* app.py:134, what the Stop press does to the session
StopSession(run, tr, res) == [running |-> FALSE, transcript |-> tr, results |-> res]

\* app.py:126-131.  The press does nothing when running is set.
Start ==
    /\ MayStart(running)
    /\ nworkers < MaxStarts
    /\ running' = TRUE
    /\ transcript' = <<>>
    /\ results' = EmptyResults
    /\ nworkers' = nworkers + 1
    /\ pc' = [pc EXCEPT ![nworkers + 1] = "open"]
    /\ UNCHANGED <<idx, tmp, feedback, source, call, ret>>

\* app.py:133-134
Stop ==
    /\ LET s == StopSession(running, transcript, results)
       IN  /\ running' = s.running
           /\ transcript' = s.transcript
           /\ results' = s.results
    /\ UNCHANGED <<nworkers, pc, idx, tmp, feedback, source, call, ret>>

\* app.py:136-140: whatever the POST does, the handler shows one of two
\* messages and changes nothing.
Log ==
    /\ \A post \in PostOutcomes :
           log_to_hubspot(transcript, results, post).value \in BOOLEAN
    /\ UNCHANGED vars

\* app.py:89-102, thread-local: an exception of connect(), or of stream_file()
\* other than FileNotFoundError, ends the thread; FileNotFoundError enters the
\* for loop.
Open(w) ==
    /\ pc[w] = "open"
    /\ \E connect \in {"ok", "raise"},
          stream_file \in {"FileNotFoundError", "raise"} :
           CASE connect = "raise" ->
                    /\ pc' = [pc EXCEPT ![w] = "dead_connect"]
                    /\ idx' = idx
             [] connect = "ok" /\ stream_file = "raise" ->
                    /\ pc' = [pc EXCEPT ![w] = "dead_stream"]
                    /\ idx' = idx
             [] connect = "ok" /\ stream_file = "FileNotFoundError" ->
                    /\ pc' = [pc EXCEPT ![w] = "check"]
                    /\ idx' = [idx EXCEPT ![w] = 1]
    /\ UNCHANGED <<running, transcript, results, nworkers, tmp, feedback,
                   source, call, ret>>

\* app.py:111-112, reached from line 103 or from the sleep of line 119
Check(w) ==
    /\ pc[w] = "check"
    /\ pc' = [pc EXCEPT ![w] = IF ShouldBreak(running) THEN "close" ELSE "load"]
    /\ UNCHANGED <<running, transcript, results, nworkers, idx, tmp, feedback,
                   source, call, ret>>

\* app.py:113, the load of st.session_state.transcript
Load(w) ==
    /\ pc[w] = "load"
    /\ tmp' = [tmp EXCEPT ![w] = transcript]
    /\ pc' = [pc EXCEPT ![w] = "store"]
    /\ UNCHANGED <<running, transcript, results, nworkers, idx, feedback,
                   source, call, ret>>

\* app.py:113, the store of the concatenation
Store(w) ==
    /\ pc[w] = "store"
    /\ transcript' = AppendChunk(tmp[w], source[idx[w]])
    /\ tmp' = [tmp EXCEPT ![w] = <<>>]
    /\ pc' = [pc EXCEPT ![w] = "analyze"]
    /\ UNCHANGED <<running, results, nworkers, idx, feedback, source, call, ret>>

\* app.py:114-115: the call returns and its sentiment is stored; an exception
\* that leaves analyze_chunk ends the thread.
Analyze(w) ==
    /\ pc[w] = "analyze"
    /\ \E r \in AnalyzeResults(idx[w]) :
           IF r.exc # "none"
           THEN /\ pc' = [pc EXCEPT ![w] = "dead_analyze"]
                /\ UNCHANGED <<results, feedback>>
           ELSE /\ pc' = [pc EXCEPT ![w] = "extend_key_phrases"]
                /\ results' = SetSentiment(results, r.sentiment)
                /\ feedback' = [feedback EXCEPT ![w] = r.feedback]
    /\ UNCHANGED <<running, transcript, nworkers, idx, tmp, source, call, ret>>

\* app.py:116: feedback.get raises AttributeError when feedback is no dict,
\* and the exception ends the thread.
MergeKeyPhrases(w) ==
    /\ pc[w] = "extend_key_phrases"
    /\ IF feedback[w].type # "dict"
       THEN /\ pc' = [pc EXCEPT ![w] = "dead_merge"]
            /\ feedback' = [feedback EXCEPT ![w] = None]
            /\ UNCHANGED results
       ELSE /\ results' = [results EXCEPT !.key_phrases =
                              Extend(@, Get(feedback[w], "key_phrases", <<>>))]
            /\ pc' = [pc EXCEPT ![w] = "extend_feedback"]
            /\ UNCHANGED feedback
    /\ UNCHANGED <<running, transcript, nworkers, idx, tmp, source, call, ret>>

\* app.py:117-119, then the for statement takes the next line or ends.
MergeFeedback(w) ==
    /\ pc[w] = "extend_feedback"
    /\ results' = [results EXCEPT !.feedback =
                       Extend(@, Get(feedback[w], "feedback", <<>>))]
    /\ feedback' = [feedback EXCEPT ![w] = None]
    /\ idx' = [idx EXCEPT ![w] = @ + 1]
    /\ pc' = [pc EXCEPT ![w] = IF idx[w] < Len(source) THEN "check" ELSE "close"]
    /\ UNCHANGED <<running, transcript, nworkers, tmp, source, call, ret>>

\* app.py:120-121
Close(w) ==
    /\ pc[w] = "close"
    /\ running' = FALSE
    /\ pc' = [pc EXCEPT ![w] = "done"]
    /\ UNCHANGED <<transcript, results, nworkers, idx, tmp, feedback, source,
                   call, ret>>

WorkerStep ==
    \E w \in Workers :
        \/ Open(w)
        \/ Check(w)
        \/ Load(w)
        \/ Store(w)
        \/ Analyze(w)
        \/ MergeKeyPhrases(w)
        \/ MergeFeedback(w)
        \/ Close(w)

Next == Start \/ Stop \/ Log \/ WorkerStep

Spec == Init /\ [][Next]_vars

\* The session without the Stop button, over all the canned lines.
NextNoStop == Start \/ Log \/ WorkerStep

SpecNoStop == InitWith(Chunks) /\ [][NextNoStop]_vars

----------------------------------------------------------------------------
\* Direct calls of the two functions, on arguments drawn from small sets

RECURSIVE TranscriptOf(_, _)
\* The transcript after the first k lines were appended in order.
TranscriptOf(lines, k) ==
    IF k = 0 THEN <<>> ELSE AppendChunk(TranscriptOf(lines, k - 1), lines[k])

\* Results a caller can pass: a session's results, or a dict lacking keys.
ResultsArgs ==
    { EmptyResults,
      [sentiment |-> SentimentOf(1), key_phrases |-> <<Chunks[1]>>, feedback |-> <<Chunks[1]>>],
      [sentiment |-> DefaultSentiment, key_phrases |-> <<>>, feedback |-> <<>>],
      [sentiment |-> PyDict({})] }

CallAnalyze ==
    /\ \E n \in 1..Len(Chunks), kick \in KickoffOutcomes :
       \E raw0 \in RawSentiment(n), raw1 \in RawFeedback(n) :
           /\ call' = [fn |-> "analyze_chunk", chunk |-> n, kick |-> kick,
                       raw0 |-> raw0, raw1 |-> raw1]
           /\ ret' = analyze_chunk(kick, raw0, raw1)
    /\ UNCHANGED session

CallLog ==
    /\ \E k \in {0, Len(Chunks)}, res \in ResultsArgs, post \in PostOutcomes :
           /\ call' = [fn |-> "log_to_hubspot", transcript |-> TranscriptOf(Chunks, k),
                       results |-> res, post |-> post]
           /\ ret' = log_to_hubspot(TranscriptOf(Chunks, k), res, post)
    /\ UNCHANGED session

NextCalls == CallAnalyze \/ CallLog

SpecCalls == InitWith(Chunks) /\ [][NextCalls]_vars

----------------------------------------------------------------------------
\* Properties

\* A thread that was started and has not returned or died.
Live(w) ==
    pc[w] \in {"open", "check", "load", "store", "analyze", "extend_key_phrases",
               "extend_feedback", "close"}

IsPrefix(s, t) == Len(s) =< Len(t) /\ SubSeq(t, 1, Len(s)) = s

RECURSIVE Join(_, _)
\* The first k lines with a newline between consecutive lines.
Join(lines, k) ==
    IF k = 0 THEN <<>>
    ELSE IF k = 1 THEN <<lines[1]>>
    ELSE Join(lines, k - 1) \o <<NL, lines[k]>>

\* The sentiments analyze_chunk can return for line n alone.
ReturnedSentiments(n) == { r.sentiment : r \in { q \in AnalyzeResults(n) : q.exc = "none" } }

StartStep == nworkers' = nworkers + 1

\* C1: in every reachable state at most one transcribe_real_time thread is
\* live.
C1_AtMostOneWorker == Cardinality({w \in Workers : Live(w)}) =< 1

C3_DefaultOnFailure ==
    (/\ call.fn = "analyze_chunk"
     /\ \/ call.kick = "raise"
        \/ call.raw0.kind # "literal"
        \/ call.raw1.kind # "literal")
    => ret = DefaultPair

\* C4: key_phrases and feedback never get shorter except by the reset of a
\* Start press, which empties both.
C4_ListsOnlyGrow ==
    [][IF StartStep
       THEN results'.key_phrases = <<>> /\ results'.feedback = <<>>
       ELSE /\ Len(results'.key_phrases) >= Len(results.key_phrases)
            /\ Len(results'.feedback) >= Len(results.feedback)]_vars

\* C4 witness: a second session whose lists grew again after the reset.
C4_Witness ==
    /\ nworkers = 2
    /\ pc[1] = "done"
    /\ idx[1] = Len(source) + 1
    /\ results.key_phrases = source
    /\ results.feedback = source
    /\ pc[2] = "close"

\* The number of the last line in a transcript.
LastLine(t) == CHOOSE n \in 1..Len(source) : source[n] = t[Len(t) - 1]

\* C5 as stated: in every reachable state the stored sentiment is an analysis
\* of the last line present in the transcript.
C5_SentimentOfLastLine ==
    transcript # <<>> => results.sentiment \in ReturnedSentiments(LastLine(transcript))

\* C5, amended: the step that stores a line's sentiment (line 115) leaves
\* results.sentiment equal to what analyze_chunk returned for that line alone,
\* and the stored sentiment changes in no other step but the reset of Start.
C5_SentimentIsLatest ==
    [][/\ \A w \in Workers :
            (pc[w] = "analyze" /\ pc'[w] = "extend_key_phrases")
                => results'.sentiment \in ReturnedSentiments(idx[w])
       /\ results'.sentiment # results.sentiment =>
              \/ StartStep /\ results'.sentiment = PyDict({})
              \/ \E w \in Workers :
                     pc[w] = "analyze" /\ pc'[w] = "extend_key_phrases"]_vars

\* C5 witness: the second line's sentiment is stored over the first's.
C5_Witness ==
    /\ nworkers = 1
    /\ pc[1] = "extend_key_phrases"
    /\ idx[1] = 2
    /\ results.sentiment = SentimentOf(2)
    /\ results.key_phrases = <<source[1]>>

\* C6: log_to_hubspot returns true exactly when the POST returned status 201,
\* false for every other status or exception, and lets no exception out.
C6_TrueIff201 ==
    call.fn = "log_to_hubspot" =>
        /\ ret.exc = "none"
        /\ ret.value \in BOOLEAN
        /\ ret.value <=> (/\ ~BodyRaises(call.results)
                          /\ call.post.exc = "none"
                          /\ call.post.status = 201)

C6_Witness ==
    /\ call.fn = "log_to_hubspot"
    /\ call.post.exc = "none"
    /\ call.post.status = 201
    /\ call.transcript = TranscriptOf(Chunks, Len(Chunks))
    /\ ret.value = TRUE

\* Every analysis of the session returned the line's own feedback.
AllSucceeded == results.key_phrases = source /\ results.feedback = source

Exhausted(w) == pc[w] = "close" /\ idx[w] = Len(source) + 1

\* C7 as stated: when a worker has gone through all six lines, with every
\* analysis successful and no Stop, the transcript is the lines joined by
\* newlines.
C7_JoinedByNewlines ==
    \A w \in Workers :
        (Exhausted(w) /\ AllSucceeded) => transcript = Join(source, Len(source))

\* C7, amended: then the transcript is the six lines in order, each followed
\* by a newline.
C7_EachLineTerminated ==
    \A w \in Workers :
        (Exhausted(w) /\ AllSucceeded) =>
            transcript = Join(source, Len(source)) \o <<NL>>

\* C7 witness: the worker of a second session has gone through the six lines.
C7_Witness ==
    /\ Len(source) = 6
    /\ nworkers = 2
    /\ Exhausted(2)
    /\ AllSucceeded

\* C8: the transcript is always the first k canned lines in order, and at most
\* one analyze_chunk call is in flight.
C8_InOrder ==
    /\ \E k \in 0..Len(source) : transcript = TranscriptOf(source, k)
    /\ Cardinality({w \in Workers : pc[w] = "analyze"}) =< 1

\* C9: running goes from true to false only by a Stop press or by the worker
\* of the current session reaching the end of transcribe_real_time.
C9_ClearedByStopOrOwnWorker ==
    [][(running /\ ~running') =>
          \/ pc' = pc
          \/ pc[nworkers] = "close" /\ pc'[nworkers] = "done"]_vars

\* C10: a failure of connect() or of stream_file() never ends the worker
\* before the simulated lines are processed.
C10_FailureFallsBack ==
    \A w \in Workers : pc[w] \notin {"dead_connect", "dead_stream"}

====
